---- MODULE Spec2Model ----
(***************************************************************************)
(* PRISM: section-aware two-stage retrieval (Candidate Ranker) and the     *)
(* grounded-answer generator (draft -> validate) built on top of it, and   *)
(* the Response Cache in front of the LLM (keyed by prompt hash, 24 h TTL). *)
(*                                                                         *)
(* Fixed-point conventions: similarity, boosted, rerank score, Evidence    *)
(* score and confidence are integers in units of 1/10000 (so 1.0 is 10000  *)
(* and 0.0102 is 102); logits are integers in units of 1/100 (so -4.58 is  *)
(* -458); boost factors are in units of 1/10 (2.0 is 20); the clock of the *)
(* cache counts hours.                                                     *)
(***************************************************************************)
EXTENDS Integers, Sequences, FiniteSets, TLC

VARIABLES
    query,        \* the query text of the request (sequence of characters)
    top_k,        \* rank(query, top_k) / Answer(query, evidence_top_k)
    rpc,          \* position of rank(): "start", "filtered", "ranked"
    target_sections, \* what the Intent Classifier returned for the query
    pool,         \* what the Chunk Store returned: <<chunk, similarity>> pairs
    candidates,   \* Candidate records owned by the ranker for this request
    scorer_ok,    \* TRUE once the cross-encoder answered, FALSE on fallback
    evidence,     \* the Evidence list rank() returned
    phase,        \* state of the Grounded Answer Generator for this query
    draft,        \* DraftAnswer: answer, used_chunks as parsed, cited_chunk_ids
    validation,   \* ValidationResult: confidence, unsupported_spans
    result,       \* what Answer() returned
    failure,      \* the error Answer() raised, "" when none
    llm_calls,    \* LLM completions requested, per stage
    llm_errors,   \* LLM completions that failed for good, per stage
    ran,          \* how many times each state of the generator has run
    cache,        \* the Response Cache: a set of entries {key, value, expires_at}
    now,          \* the clock of the cache, in hours
    task,         \* the LLM request each concurrent query is busy with
    calls,        \* the external LLM calls made so far: the prompt hash of each
    log,          \* the LLM requests that have ended, in the order they ended
    badge,        \* what the ConfidenceBadge of a message shows
    message_sources,         \* metadata.sources of the assistant message on screen
    clicked,                 \* the citation clicked last, <<>> after any other event
    pdfViewerOpen,           \* store: the PDF viewer is shown
    pdfViewerDocumentId,     \* store: <<>> for null, else <<document_id>>
    pdfViewerPage,           \* store: the page handed to the viewer as initialPage
    pdfViewerHighlightText,  \* store: <<>> for null, else <<text>>
    numPages,                \* PDFViewer: pages of the loaded document, 0 before
    pageNumber,              \* PDFViewer: the page on screen
    scale,                   \* PDFViewer: zoom in percent
    loading,                 \* PDFViewer: the Document is fetching its file
    changed_deps,            \* PDFViewer: dependencies of the page effect that
                             \* changed in the last render
    retry_pc,     \* _rate_limited_llm_call: "idle", "loop" or "returned"
    attempt,      \* the loop variable of the retry loop
    errors,       \* what each attempt of the current call failed with
    waits,        \* the back-off sleeps of the current call, in seconds
    response,     \* what the current call returned: <<>> for None
    finished,     \* the calls that have returned: errors, waits and response of each
    sessionMessages,  \* store: session id -> messages, for the ids that have an entry
    currentSession,   \* store: <<>> for null, else <<session_id>>
    server_sessions,  \* the sessions the backend holds
    chat_rq,          \* the chat request of sendMessageMutation, if one is in flight
    delete_rq,        \* the request of deleteMutation, if one is in flight
    cleared,          \* the sessions whose deletion succeeded and were cleared
    uploadStatus,     \* UploadZone: 'idle', 'uploading', 'success' or 'error'
    isDragging,       \* UploadZone: a file is dragged over the zone
    in_flight,        \* upload requests sent and not yet answered
    timers,           \* pending setTimeout(() => setUploadStatus('idle'), 3000)
    uploads_started   \* uploads started so far

rankVars == <<query, top_k, rpc, target_sections, pool, candidates, scorer_ok, evidence>>

answerVars == <<phase, draft, validation, result, failure, llm_calls, llm_errors, ran>>

cacheVars == <<cache, now, task, calls, log>>

coreVars == <<rankVars, answerVars, cacheVars>>

badgeVars == <<badge>>

storeVars == <<pdfViewerOpen, pdfViewerDocumentId, pdfViewerPage, pdfViewerHighlightText>>

viewerVars == <<message_sources, clicked, storeVars, numPages, pageNumber, scale, loading,
                changed_deps>>

retryVars == <<retry_pc, attempt, errors, waits, response, finished>>

sessionVars == <<sessionMessages, currentSession, server_sessions, chat_rq, delete_rq, cleared>>

uploadVars == <<uploadStatus, isDragging, in_flight, timers, uploads_started>>

uiVars == <<badgeVars, viewerVars, retryVars, sessionVars, uploadVars>>

vars == <<coreVars, uiVars>>

----------------------------------------------------------------------------
(* Bounds of the model *)

\* uploads started in one visit of the documents page
MaxUploads == 4

\* question/answer exchanges kept per session
MaxExchanges == 2

\* LLM calls made one after the other through the retry loop
MaxCalls == 2

\* pages of the longest document shown in the PDF viewer
MaxPages == 2

\* sentences of the longest answer the validator judged
MaxJudged == 45

\* number of chunks held by the Chunk Store
NumChunks == 4

\* rerank_top_k of the configuration (default 20), kept small
RerankTopK == 2

\* largest top_k a caller passes (final_top_k defaults to 5)
MaxTopK == 2

\* longest draft answer, in sentences
MaxSentences == 2

\* LLM requests issued through the Response Cache, over all queries
MaxRequests == 2

\* how often the clock of the cache is advanced
MaxTicks == 2

----------------------------------------------------------------------------
(* Small helpers *)

Min(a, b) == IF a < b THEN a ELSE b

Range(s) == { s[i] : i \in 1..Len(s) }

Prefix(s, n) == SubSeq(s, 1, Min(n, Len(s)))

\* page: null of a chunk without page metadata
NoPage == 0

----------------------------------------------------------------------------
(* The Chunk Store: a fixed corpus; search() returns any part of it.       *)

Chunks == 1..NumChunks

SectionCycle == <<"results", "results", "introduction", "discussion", "methods", "references">>

\* chunks 1..3 belong to document 1, 4..6 to document 2, ...
ChunkDocument(c) == ((c - 1) \div 3) + 1

ChunkIndex(c) == (c - 1) % 3

\* document 1 has page numbers, chunk index 2 starts its page 2;
\* the other documents carry no page metadata (page: null)
ChunkPage(c) ==
    IF ChunkDocument(c) = 1
    THEN (IF ChunkIndex(c) = 2 THEN 2 ELSE 1)
    ELSE NoPage

ChunkSection(c) == SectionCycle[((c - 1) % Len(SectionCycle)) + 1]

\* similarity values the Chunk Store may attach to a hit: 0.75 and, the
\* similarity being a dot product, -0.10
Similarities == {7500, -1000}

----------------------------------------------------------------------------
(* Intent Classifier *)

UpperCase == <<"A","B","C","D","E","F","G","H","I","J","K","L","M",
               "N","O","P","Q","R","S","T","U","V","W","X","Y","Z">>

LowerCase == <<"a","b","c","d","e","f","g","h","i","j","k","l","m",
               "n","o","p","q","r","s","t","u","v","w","x","y","z">>

LowerChar(ch) ==
    IF \E i \in 1..Len(UpperCase) : UpperCase[i] = ch
    THEN LowerCase[CHOOSE i \in 1..Len(UpperCase) : UpperCase[i] = ch]
    ELSE ch

\* query.lower()
Lower(text) == [i \in 1..Len(text) |-> LowerChar(text[i])]

\* keyword in text
Contains(text, keyword) ==
    \E i \in 0..(Len(text) - Len(keyword)) :
        \A j \in 1..Len(keyword) : text[i + j] = keyword[j]

SectionRules == <<
    [keywords |-> {
          <<"r", "e", "s", "u", "l", "t">>,
          <<"f", "i", "n", "d", "i", "n", "g">>,
          <<"p", "e", "r", "f", "o", "r", "m", "a", "n", "c", "e">>,
          <<"a", "c", "c", "u", "r", "a", "c", "y">>,
          <<"a", "c", "h", "i", "e", "v", "e">>,
          <<"o", "b", "t", "a", "i", "n">>,
          <<"m", "e", "t", "r", "i", "c">>},
     sections |-> {"results", "experiments", "evaluation"}],
    [keywords |-> {
          <<"m", "e", "t", "h", "o", "d">>,
          <<"a", "p", "p", "r", "o", "a", "c", "h">>,
          <<"i", "m", "p", "l", "e", "m", "e", "n", "t">>,
          <<"a", "l", "g", "o", "r", "i", "t", "h", "m">>,
          <<"t", "e", "c", "h", "n", "i", "q", "u", "e">>,
          <<"p", "r", "o", "c", "e", "d", "u", "r", "e">>,
          <<"h", "o", "w">>,
          <<"p", "r", "o", "c", "e", "s", "s">>},
     sections |-> {"methodology", "methods", "experiments"}],
    [keywords |-> {
          <<"w", "h", "a", "t", " ", "i", "s">>,
          <<"d", "e", "f", "i", "n", "e">>,
          <<"b", "a", "c", "k", "g", "r", "o", "u", "n", "d">>,
          <<"c", "o", "n", "t", "e", "x", "t">>,
          <<"i", "n", "t", "r", "o", "d", "u", "c", "t", "i", "o", "n">>,
          <<"o", "v", "e", "r", "v", "i", "e", "w">>},
     sections |-> {"introduction", "background", "abstract"}],
    [keywords |-> {
          <<"r", "e", "l", "a", "t", "e", "d">>,
          <<"p", "r", "e", "v", "i", "o", "u", "s">>,
          <<"p", "r", "i", "o", "r">>,
          <<"e", "x", "i", "s", "t", "i", "n", "g">>,
          <<"l", "i", "t", "e", "r", "a", "t", "u", "r", "e">>},
     sections |-> {"related_work", "background"}],
    [keywords |-> {
          <<"d", "i", "s", "c", "u", "s", "s">>,
          <<"a", "n", "a", "l", "y", "z", "e">>,
          <<"i", "n", "t", "e", "r", "p", "r", "e", "t">>,
          <<"e", "x", "p", "l", "a", "i", "n">>,
          <<"w", "h", "y">>},
     sections |-> {"discussion", "results", "conclusion"}],
    [keywords |-> {
          <<"c", "o", "n", "c", "l", "u", "s", "i", "o", "n">>,
          <<"s", "u", "m", "m", "a", "r", "y">>,
          <<"c", "o", "n", "t", "r", "i", "b", "u", "t", "i", "o", "n">>,
          <<"f", "u", "t", "u", "r", "e">>,
          <<"l", "i", "m", "i", "t", "a", "t", "i", "o", "n">>},
     sections |-> {"conclusion", "discussion"}],
    [keywords |-> {
          <<"d", "a", "t", "a", "s", "e", "t">>,
          <<"d", "a", "t", "a">>,
          <<"e", "x", "p", "e", "r", "i", "m", "e", "n", "t">>,
          <<"e", "v", "a", "l", "u", "a", "t", "i", "o", "n">>,
          <<"b", "e", "n", "c", "h", "m", "a", "r", "k">>},
     sections |-> {"experiments", "results", "methodology"}]
>>

RuleMatches(rule, lowered) == \E kw \in rule.keywords : Contains(lowered, kw)

\* the if / elif chain over the keyword groups: the first group with a keyword
\* in the lower-cased query decides, no group gives the empty set
Classify(q) ==
    LET lowered == Lower(q)
        matching == { j \in 1..Len(SectionRules) : RuleMatches(SectionRules[j], lowered) }
    IN IF matching = {} THEN {}
       ELSE SectionRules[CHOOSE j \in matching : \A k \in matching : j <= k].sections

\* the queries the model asks
Queries == { <<"R", "e", "s", "u", "l", "t", "s", "?">>,
             <<"h", "i">>,
             <<"w", "h", "y", " ", "m", "e", "t", "h", "o", "d">> }

----------------------------------------------------------------------------
(* Candidate Ranker: section boosting *)

related_groups == << {"results", "experiments", "evaluation"},
                     {"methodology", "methods", "experiments"},
                     {"introduction", "background", "abstract"},
                     {"discussion", "conclusion", "results"} >>

is_related_section(section_type, targets) ==
    \E g \in 1..Len(related_groups) :
        /\ section_type \in related_groups[g]
        /\ related_groups[g] \cap targets # {}

\* the related match tested before the exact match
BoostFactor_related_first(section_type, targets) ==
    IF is_related_section(section_type, targets) THEN 13
    ELSE IF section_type \in targets THEN 20
    ELSE 10

\* boost factor in tenths: 2.0 exact match, 1.3 related, 1.0 otherwise
BoostFactor(section_type, targets) ==
    IF section_type \in targets THEN 20
    ELSE IF is_related_section(section_type, targets) THEN 13
    ELSE 10

Boosted(similarity, factor) == (similarity * factor) \div 10

\* one Candidate per hit of the Chunk Store, in the order it returned them
MakeCandidates(targets, hits) ==
    [i \in 1..Len(hits) |->
        [chunk            |-> hits[i][1],
         similarity_score |-> hits[i][2],
         boost_factor     |-> BoostFactor(ChunkSection(hits[i][1]), targets),
         boosted_score    |-> Boosted(hits[i][2],
                                      BoostFactor(ChunkSection(hits[i][1]), targets)),
         rerank_score_raw |-> <<>>,
         rerank_score     |-> <<>>]]

----------------------------------------------------------------------------
(* Candidate Ranker: stable descending sort *)

\* the score a list is ordered by: "boosted_score" or "rerank_score"
SortKey(c, field) ==
    IF field = "rerank_score" THEN c.rerank_score[1] ELSE c.boosted_score

RECURSIVE InsertDesc(_, _, _)
\* insert x behind every element whose key is >= the key of x
InsertDesc(s, x, field) ==
    IF s = <<>> THEN <<x>>
    ELSE IF SortKey(Head(s), field) >= SortKey(x, field)
         THEN <<Head(s)>> \o InsertDesc(Tail(s), x, field)
         ELSE <<x>> \o s

RECURSIVE SortDescFrom(_, _, _)
SortDescFrom(done, rest, field) ==
    IF rest = <<>> THEN done
    ELSE SortDescFrom(InsertDesc(done, Head(rest), field), Tail(rest), field)

\* a descending sort that turns the order of equal keys round
SortDesc_ties_reversed(s, field) ==
    SortDescFrom(<<>>, [i \in 1..Len(s) |-> s[Len(s) + 1 - i]], field)

\* sorted(s, key=..., reverse=True): equal keys keep their order
SortDesc(s, field) == SortDescFrom(<<>>, s, field)

----------------------------------------------------------------------------
(* Candidate Ranker: diversity filter *)

\* location = (document_id, page_number, chunk_index // 3)
LocalityKey(c) == <<ChunkDocument(c), ChunkPage(c), ChunkIndex(c) \div 3>>

RECURSIVE DiversityWalk(_, _)
DiversityWalk(results, seen_locations) ==
    IF results = <<>> THEN <<>>
    ELSE LET r == Head(results)
             location == LocalityKey(r.chunk)
         IN IF location \notin seen_locations
            THEN <<r>> \o DiversityWalk(Tail(results), seen_locations \cup {location})
            ELSE DiversityWalk(Tail(results), seen_locations)

\* a filter that lets every candidate through
apply_diversity_filter_keep_all(results) == results

apply_diversity_filter(results) == DiversityWalk(results, {})

\* the filtered list handed on whole, however long
DiverseCandidates_unbounded(targets, hits) ==
    apply_diversity_filter(SortDesc(MakeCandidates(targets, hits), "boosted_score"))

\* phases 2-4 of rank(): boost, sort by boosted score, filter, bound to rerank_top_k
DiverseCandidates(targets, hits) ==
    Prefix(apply_diversity_filter(SortDesc(MakeCandidates(targets, hits),
                                           "boosted_score")),
           RerankTopK)

----------------------------------------------------------------------------
(* Candidate Ranker: cross-encoder score normalisation *)

\* a * b / 10000 without leaving 32 bits
MulFix(a, b) == (a \div 10000) * b + ((a % 10000) * b) \div 10000

RECURSIVE TaylorSum(_, _, _)
\* term + term*r/(100(k+1)) + ... : the series of e^(r/100) from its k-th term
TaylorSum(term, k, r) ==
    IF term = 0 THEN 0
    ELSE term + TaylorSum((term * r) \div (100 * (k + 1)), k + 1, r)

RECURSIVE TimesE(_, _)
TimesE(v, n) == IF n = 0 THEN v ELSE TimesE(MulFix(v, 27183), n - 1)

RECURSIVE OverE(_, _)
OverE(v, n) == IF n = 0 THEN v ELSE OverE((v * 10000) \div 27183, n - 1)

\* np.exp(h / 100), in units of 1/10000
Exp(h) ==
    LET q == h \div 100
        frac == TaylorSum(10000, 0, h % 100)
    IN IF q >= 0 THEN TimesE(frac, q) ELSE OverE(frac, -q)

\* the raw logit used as the score, as before normalisation was added
sigmoid_raw_logit(logit) == logit * 100

\* 1 / (1 + np.exp(-scores)), rounded to the nearest 1/10000
sigmoid(logit) ==
    LET d == 10000 + Exp(-logit)
    IN (2 * 100000000 + d) \div (2 * d)

\* logits the Cross-Encoder Scorer may return: -4.58, 0.5 and 3.2
Logits == {-458, 50, 320}

\* rerank(): one logit per candidate, same order
rerank(cands, logits) ==
    [i \in 1..Len(cands) |->
        [cands[i] EXCEPT !.rerank_score_raw = <<logits[i]>>,
                         !.rerank_score = <<sigmoid(logits[i])>>]]

----------------------------------------------------------------------------
(* Candidate Ranker: final selection *)

\* the cut at top_k without ordering by the ranking score first
SelectTopK_unsorted(cands, k, field) == Prefix(cands, k)

\* the ordered list without the cut at top_k
SelectTopK_uncut(cands, k, field) == SortDesc(cands, field)

\* results = results[:final_top_k] after ordering by the ranking score
SelectTopK(cands, k, field) == Prefix(SortDesc(cands, field), k)

\* Evidence records with display ids c1..cN in the final order
MakeEvidence(cands, field) ==
    [i \in 1..Len(cands) |->
        [chunk_id    |-> i,
         document_id |-> ChunkDocument(cands[i].chunk),
         text        |-> cands[i].chunk,
         score       |-> SortKey(cands[i], field),
         page        |-> ChunkPage(cands[i].chunk)]]

\* what search() may return: distinct chunks, nearest first, at most
\* candidate_pool_size = min(50, reranker_top_k * 2) of them
candidate_pool_size == Min(50, RerankTopK * 2)

Pools ==
    UNION { { h \in [1..n -> Chunks \X Similarities] :
                /\ \A i, j \in 1..n : i # j => h[i][1] # h[j][1]
                /\ \A i \in 1..(n - 1) : h[i][2] >= h[i + 1][2] } :
            n \in 0..Min(candidate_pool_size, NumChunks) }

\* step 6 of rank() when the Cross-Encoder Scorer answered with these logits
RankScored(cands, k, logits) ==
    MakeEvidence(SelectTopK(rerank(cands, logits), k, "rerank_score"), "rerank_score")

\* a ranker that gives up when the Cross-Encoder Scorer is unavailable
RankFallback_none(cands, k) == <<>>

\* step 6 of rank() when the Cross-Encoder Scorer is unavailable
RankFallback(cands, k) ==
    MakeEvidence(SelectTopK(cands, k, "boosted_score"), "boosted_score")

\* the searches the answer generator is exercised with: every part of the
\* corpus, the hits in storage order and equally similar to the query
OrderedPools ==
    { h \in Pools : \A i \in 1..(Len(h) - 1) : h[i][1] < h[i + 1][1] /\ h[i][2] = h[i + 1][2] }

----------------------------------------------------------------------------
(* Grounded Answer Generator: data *)

\* ids a draft may name: the first id, the last id of a full Evidence list,
\* and one id no Evidence list has
MarkerIds == {1, MaxTopK, MaxTopK + 1}

\* a sentence of the answer, reduced to the [c<N>] markers it carries
Sentences == {{}} \cup { {m} : m \in MarkerIds }

AnswerTexts == UNION { [1..n -> Sentences] : n \in 0..MaxSentences }

\* a completion of the draft prompt
LLMAnswer(text) == [kind |-> "answer", sentences |-> text]

\* the fixed message returned when there is no evidence at all
NoContextMessage == [kind |-> "no supporting context", sentences |-> <<{}>>]

\* re.findall(r"\[c\d+\]", answer)
ExtractMarkers(message) == UNION Range(message.sentences)

EvidenceIds(ev) == { ev[i].chunk_id : i \in 1..Len(ev) }

\* used_chunks taken as they come
KnownChunks_keep_unknown(used_chunks, ev) == used_chunks

\* used_chunks entries that name no Evidence item are dropped
KnownChunks(used_chunks, ev) == used_chunks \cap EvidenceIds(ev)

RECURSIVE SelectCited(_, _)
SelectCited(ev, ids) ==
    IF ev = <<>> THEN <<>>
    ELSE IF Head(ev).chunk_id \in ids
         THEN <<Head(ev)>> \o SelectCited(Tail(ev), ids)
         ELSE SelectCited(Tail(ev), ids)

\* the Evidence items the draft actually cited, in Evidence order
CitedSources(ev, cited) == SelectCited(ev, cited)

\* the ratio as a percentage instead of a fraction
ConfidenceRatio_percent(supported, total) == (supported * 100 * 10000) \div total

\* supported_sentences / total_sentences
ConfidenceRatio(supported, total) == (supported * 10000) \div total

NoDraft == [answer |-> LLMAnswer(<<>>), used_chunks |-> {}, cited_chunk_ids |-> {}]

NoValidation == [confidence |-> 0, unsupported_spans |-> {}]

NoResult == [message |-> LLMAnswer(<<>>), sources |-> <<>>,
             confidence |-> 0, unsupported_spans |-> {}]

GeneratorStates == {"DRAFTING", "VALIDATING", "DONE"}

----------------------------------------------------------------------------
(* Response Cache: LLM completions memoized by prompt hash, with a TTL *)

\* cache_ttl: 24 hours
cache_ttl == 24

\* the clock advances by half a TTL at a time
ClockStep == cache_ttl \div 2

\* the queries that run concurrently, each issuing its LLM requests serially
Tasks == {"q1", "q2"}

\* hashes of the prompts the queries send
Hashes == {"h1", "h2"}

\* get(key) -> absent
Absent == <<>>

\* the cache key of a prompt is its hash
CacheKey(prompt_hash) == prompt_hash

\* the completion the n-th external call returned for a prompt; head and tail
\* are the two halves of its text
Completion(prompt_hash, n) == [prompt |-> prompt_hash, head |-> n, tail |-> n]

LiveEntries(c, key, t) == { x \in c : x.key = key /\ t < x.expires_at }

\* a cache that is never hit
get_never_hits(c, key, t) == Absent

\* a lookup that does not look at the expiry
get_ignoring_expiry(c, key, t) ==
    IF { x \in c : x.key = key } = {} THEN Absent
    ELSE <<(CHOOSE x \in c : x.key = key).value>>

\* get(key) at time t: the value of the live entry of the key, or absent
get(c, key, t) ==
    IF LiveEntries(c, key, t) = {} THEN Absent
    ELSE <<(CHOOSE x \in LiveEntries(c, key, t) : TRUE).value>>

\* an insert that leaves the previous entry of the key in place
put_keep_old(c, key, value, ttl, t) ==
    c \cup { [key |-> key, value |-> value, expires_at |-> t + ttl] }

\* put(key, value, ttl) at time t: atomic insert, replacing the entry of the key
put(c, key, value, ttl, t) ==
    { x \in c : x.key # key } \cup { [key |-> key, value |-> value, expires_at |-> t + ttl] }

IdleTask == [pc |-> "idle", hash |-> "", own |-> <<>>, after |-> 0, probed_at |-> 0]

\* LLM requests issued so far
Issued == Len(log) + Cardinality({ t \in Tasks : task[t].pc \in {"call", "store"} })

\* the record of a request of task t that ends now
Ended(t, ok, called, value, stored) ==
    [task |-> t, hash |-> task[t].hash, ok |-> ok, called |-> called, value |-> value,
     after |-> task[t].after, probed_at |-> task[t].probed_at, stored_at |-> stored]

----------------------------------------------------------------------------
(* The web client: ConfidenceBadge *)

\* getLevel(): the level of a confidence given in units of 1/10000
getLevel(confidence) ==
    IF confidence >= 7500 THEN "high"
    ELSE IF confidence >= 4000 THEN "medium"
    ELSE "low"

\* levelConfig[level].label
levelConfig ==
    [high |-> "Well supported", medium |-> "Partial", low |-> "Weak evidence"]

\* (confidence * 100).toFixed(0): the nearest whole percentage.  A product
\* that lies exactly between two integers is a double that may sit on either
\* side of the half, so both neighbours are possible outcomes.
toFixed0(confidence) ==
    IF confidence % 100 = 50
    THEN {confidence \div 100, confidence \div 100 + 1}
    ELSE {(confidence + 50) \div 100}

\* the confidence values a message can carry: supported / total sentences
\* of a validated answer, 0.2 for missing chunks and the 0.5 default
Confidences ==
    LET ratios == {ConfidenceRatio(supported, total) :
                      supported \in 0..MaxJudged, total \in 1..MaxJudged}
    IN {c \in ratios : c <= 10000} \cup {2000, 5000}

\* no badge rendered yet
NoBadge == <<>>

----------------------------------------------------------------------------
(* The web client: citations of a message and the PDF viewer *)

\* a Source of a message: the Evidence item the backend sent for a chunk
SourceOf(id, c) ==
    [chunk_id |-> id, document_id |-> ChunkDocument(c), page |-> ChunkPage(c), text |-> c]

\* metadata.sources of an assistant message: Evidence items in id order
SourceLists ==
    UNION {{s \in [1..n -> {SourceOf(id, c) : id \in 1..MaxTopK, c \in Chunks}] :
              \A i, j \in 1..n : i < j => s[i].chunk_id < s[j].chunk_id} : n \in 0..MaxTopK}

\* the [cN] markers a message can show: more than it has sources for
CitationIds == 1..(MaxTopK + 1)

\* sourcesMap[chunkId]: the last source with that chunk_id; <<>> when none
sourcesMap(sources, chunkId) ==
    LET at == {i \in 1..Len(sources) : sources[i].chunk_id = chunkId}
    IN IF at = {} THEN <<>>
       ELSE <<sources[CHOOSE i \in at : \A j \in at : j <= i]>>

\* source.page as it is
SourcePage_raw(source) == source.page

\* source.page || 1
SourcePage(source) == IF source.page = NoPage THEN 1 ELSE source.page

\* PDFViewer is rendered by the page
Mounted == pdfViewerOpen /\ pdfViewerDocumentId # <<>>

\* pending effects run before the next event is handled
Settled == changed_deps = {}

\* Math.min(Math.max(1, prevPageNumber + offset), numPages)
NewPage(prevPageNumber, offset, pages) ==
    LET newPage == prevPageNumber + offset
        atLeast1 == IF newPage < 1 THEN 1 ELSE newPage
    IN Min(atLeast1, pages)

\* Math.min(prevScale + 0.25, 2.0)
zoomIn(prevScale) == Min(prevScale + 25, 200)

\* Math.max(prevScale - 0.25, 0.6)
zoomOut(prevScale) == IF prevScale - 25 > 60 THEN prevScale - 25 ELSE 60

\* setScale(1.0)
resetZoom == 100

----------------------------------------------------------------------------
(* The LLM client: _rate_limited_llm_call *)

\* max_retries: int = 3
max_retries == 3

\* what an attempt can raise: a rate-limit error, whose text holds "429",
\* or any other error of the provider (a 5xx response, a timeout)
ErrorKinds == {"429", "5xx"}

\* wait_time = (2 ** attempt) * 3
wait_time(n) == (2 ^ n) * 3

\* except Exception as e: if "429" in str(e): time.sleep(wait_time)
BackoffAfter(kind, n) == IF kind = "429" THEN <<wait_time(n)>> ELSE <<>>

----------------------------------------------------------------------------
(* The web client: sessions and their messages *)

Sessions == {"s1", "s2"}

\* no request of that mutation in flight
NoRequest == [stage |-> "none", session |-> ""]

\* getSessionMessages(sessionId): sessionMessages[sessionId] || []
getSessionMessages(messages, sessionId) ==
    IF sessionId \in DOMAIN messages THEN messages[sessionId] ELSE <<>>

\* addMessage(sessionId, message)
addMessage(messages, sessionId, message) ==
    [id \in DOMAIN messages \cup {sessionId} |->
        IF id = sessionId
        THEN Append(getSessionMessages(messages, sessionId), message)
        ELSE messages[id]]

\* clearSessionMessages(sessionId)
clearSessionMessages(messages, sessionId) ==
    [id \in DOMAIN messages \ {sessionId} |-> messages[id]]

\* the client before any interaction
ClientInit ==
    /\ badge = NoBadge
    /\ message_sources = <<>>
    /\ clicked = <<>>
    /\ pdfViewerOpen = FALSE
    /\ pdfViewerDocumentId = <<>>
    /\ pdfViewerPage = 1
    /\ pdfViewerHighlightText = <<>>
    /\ numPages = 0
    /\ pageNumber = 1
    /\ scale = resetZoom
    /\ loading = FALSE
    /\ changed_deps = {}
    /\ retry_pc = "idle"
    /\ attempt = 0
    /\ errors = <<>>
    /\ waits = <<>>
    /\ response = <<>>
    /\ finished = <<>>
    /\ sessionMessages = [id \in {} |-> <<>>]
    /\ currentSession = <<>>
    /\ server_sessions = Sessions
    /\ chat_rq = NoRequest
    /\ delete_rq = NoRequest
    /\ cleared = {}
    /\ uploadStatus = "idle"
    /\ isDragging = FALSE
    /\ in_flight = 0
    /\ timers = 0
    /\ uploads_started = 0

----------------------------------------------------------------------------
(* The state after a request arrived *)

Init ==
    /\ query \in Queries
    /\ top_k \in 1..MaxTopK
    /\ rpc = "start"
    /\ target_sections = {}
    /\ pool = <<>>
    /\ candidates = <<>>
    /\ scorer_ok = FALSE
    /\ evidence = <<>>
    /\ phase = "RETRIEVE"
    /\ draft = NoDraft
    /\ validation = NoValidation
    /\ result = NoResult
    /\ failure = ""
    /\ llm_calls = [draft |-> 0, validate |-> 0]
    /\ llm_errors = [draft |-> 0, validate |-> 0]
    /\ ran = [s \in GeneratorStates |-> 0]
    /\ cache = {}
    /\ now = 0
    /\ task = [t \in Tasks |-> IdleTask]
    /\ calls = <<>>
    /\ log = <<>>
    /\ ClientInit

----------------------------------------------------------------------------
(* rank(query, top_k), one action per external call *)

\* the Chunk Store answers; boosting, sorting and filtering follow at once
Recall ==
    /\ rpc = "start"
    /\ target_sections' = Classify(query)
    /\ \E hits \in Pools :
        /\ pool' = hits
        /\ candidates' = DiverseCandidates(target_sections', hits)
    /\ rpc' = "filtered"
    /\ UNCHANGED <<query, top_k, scorer_ok, evidence, answerVars, cacheVars, uiVars>>

\* the Cross-Encoder Scorer answers with one logit per candidate
ScoreBatch ==
    /\ rpc = "filtered"
    /\ \E logits \in [1..Len(candidates) -> Logits] :
        /\ candidates' = rerank(candidates, logits)
        /\ evidence' = RankScored(candidates, top_k, logits)
    /\ scorer_ok' = TRUE
    /\ rpc' = "ranked"
    /\ UNCHANGED <<query, top_k, target_sections, pool, answerVars, cacheVars, uiVars>>

\* the Cross-Encoder Scorer is unavailable: rank by the boosted score instead
ScoreUnavailable ==
    /\ rpc = "filtered"
    /\ evidence' = RankFallback(candidates, top_k)
    /\ rpc' = "ranked"
    /\ UNCHANGED <<query, top_k, target_sections, pool, candidates, scorer_ok, answerVars, cacheVars, uiVars>>

NextRank == Recall \/ ScoreBatch \/ ScoreUnavailable

SpecRank == Init /\ [][NextRank]_vars

----------------------------------------------------------------------------
(* Answer(query, evidence_top_k): retrieve -> draft -> validate -> END *)

RunState(s) == ran' = [ran EXCEPT ![s] = @ + 1]

\* node 1: the Candidate Ranker returns the Evidence list
Retrieve ==
    /\ phase = "RETRIEVE"
    /\ \E hits \in OrderedPools :
        LET cands == DiverseCandidates(Classify(query), hits)
        IN \/ \E logit \in Logits :
                 evidence' = RankScored(cands, top_k, [i \in 1..Len(cands) |-> logit])
           \/ evidence' = RankFallback(cands, top_k)
    /\ phase' = "DRAFTING"
    /\ UNCHANGED <<uiVars, cacheVars, query, top_k, rpc, target_sections, pool, candidates, scorer_ok,
                   draft, validation, result, failure, llm_calls, llm_errors, ran>>

\* DRAFTING with no evidence: nothing to prompt with, the fixed message is the draft
DraftNoEvidence ==
    /\ phase = "DRAFTING"
    /\ evidence = <<>>
    /\ draft' = [answer |-> NoContextMessage, used_chunks |-> {}, cited_chunk_ids |-> {}]
    /\ phase' = "VALIDATING"
    /\ RunState("DRAFTING")
    /\ UNCHANGED <<uiVars, rankVars, cacheVars, llm_errors, validation, result, failure, llm_calls>>

\* DRAFTING: the completion parses as {answer, used_chunks}
DraftStructured ==
    /\ phase = "DRAFTING"
    /\ evidence # <<>>
    /\ \E text \in AnswerTexts, used \in SUBSET MarkerIds :
        draft' = [answer |-> LLMAnswer(text),
                  used_chunks |-> used,
                  cited_chunk_ids |-> KnownChunks(used, evidence)]
    /\ llm_calls' = [llm_calls EXCEPT !.draft = @ + 1]
    /\ phase' = "VALIDATING"
    /\ RunState("DRAFTING")
    /\ UNCHANGED <<uiVars, rankVars, cacheVars, llm_errors, validation, result, failure>>

\* DRAFTING: the completion is free text, used_chunks come from its [c<N>] markers;
\* a completion with no marker at all counts as a failed generation
DraftFreeText ==
    /\ phase = "DRAFTING"
    /\ evidence # <<>>
    /\ \E text \in AnswerTexts :
        LET used == ExtractMarkers(LLMAnswer(text))
        IN IF used = {}
           THEN /\ phase' = "FAILED"
                /\ failure' = "generation unavailable"
                /\ UNCHANGED draft
           ELSE /\ draft' = [answer |-> LLMAnswer(text),
                             used_chunks |-> used,
                             cited_chunk_ids |-> KnownChunks(used, evidence)]
                /\ phase' = "VALIDATING"
                /\ UNCHANGED failure
    /\ llm_calls' = [llm_calls EXCEPT !.draft = @ + 1]
    /\ RunState("DRAFTING")
    /\ UNCHANGED <<uiVars, rankVars, cacheVars, llm_errors, validation, result>>

\* a failed generation answered with the fixed no-context message
DraftUnavailable_sentinel ==
    /\ phase = "DRAFTING"
    /\ evidence # <<>>
    /\ llm_calls' = [llm_calls EXCEPT !.draft = @ + 1]
    /\ draft' = [answer |-> NoContextMessage, used_chunks |-> {}, cited_chunk_ids |-> {}]
    /\ phase' = "VALIDATING"
    /\ RunState("DRAFTING")
    /\ llm_errors' = [llm_errors EXCEPT !.draft = @ + 1]
    /\ UNCHANGED <<uiVars, rankVars, cacheVars, validation, result, failure>>

\* DRAFTING: the completion still fails when the retry budget is spent
DraftUnavailable ==
    /\ phase = "DRAFTING"
    /\ evidence # <<>>
    /\ llm_calls' = [llm_calls EXCEPT !.draft = @ + 1]
    /\ phase' = "FAILED"
    /\ failure' = "generation unavailable"
    /\ RunState("DRAFTING")
    /\ llm_errors' = [llm_errors EXCEPT !.draft = @ + 1]
    /\ UNCHANGED <<uiVars, rankVars, cacheVars, draft, validation, result>>

\* the no-evidence case falling into the missing-chunks value
ValidateNoEvidence_as_missing ==
    /\ phase = "VALIDATING"
    /\ evidence = <<>>
    /\ validation' = [confidence |-> 2000, unsupported_spans |-> {}]
    /\ phase' = "DONE"
    /\ RunState("VALIDATING")
    /\ UNCHANGED <<uiVars, rankVars, cacheVars, llm_errors, draft, result, failure, llm_calls>>

\* VALIDATING with no evidence: no fact-check is requested, confidence is 0.0
ValidateNoEvidence ==
    /\ phase = "VALIDATING"
    /\ evidence = <<>>
    /\ validation' = [confidence |-> 0, unsupported_spans |-> {}]
    /\ phase' = "DONE"
    /\ RunState("VALIDATING")
    /\ UNCHANGED <<uiVars, rankVars, cacheVars, llm_errors, draft, result, failure, llm_calls>>

\* VALIDATING a draft that cites no known chunk: missing chunks -> 0.2 confidence
ValidateMissingChunks ==
    /\ phase = "VALIDATING"
    /\ evidence # <<>>
    /\ draft.cited_chunk_ids = {}
    /\ validation' = [confidence |-> 2000, unsupported_spans |-> {}]
    /\ phase' = "DONE"
    /\ RunState("VALIDATING")
    /\ UNCHANGED <<uiVars, rankVars, cacheVars, llm_errors, draft, result, failure, llm_calls>>

\* outcome of a fact-check that judged these sentences supported; a draft of
\* zero sentences has no ratio and is handled as a validation error
Judged(sentences, supported) ==
    IF Len(sentences) = 0
    THEN [confidence |-> 5000, unsupported_spans |-> {}]
    ELSE [confidence |-> ConfidenceRatio(Cardinality(supported), Len(sentences)),
          unsupported_spans |-> (1..Len(sentences)) \ supported]

\* VALIDATING: the fact-checker judges every sentence of the draft
ValidateJudged ==
    /\ phase = "VALIDATING"
    /\ evidence # <<>>
    /\ draft.cited_chunk_ids # {}
    /\ \E supported \in SUBSET (1..Len(draft.answer.sentences)) :
        validation' = Judged(draft.answer.sentences, supported)
    /\ llm_calls' = [llm_calls EXCEPT !.validate = @ + 1]
    /\ phase' = "DONE"
    /\ RunState("VALIDATING")
    /\ UNCHANGED <<uiVars, rankVars, cacheVars, llm_errors, draft, result, failure>>

\* a failed fact-check that sends the query back to DRAFTING
ValidateUnavailable_redraft ==
    /\ phase = "VALIDATING"
    /\ evidence # <<>>
    /\ draft.cited_chunk_ids # {}
    /\ llm_calls' = [llm_calls EXCEPT !.validate = @ + 1]
    /\ phase' = "DRAFTING"
    /\ RunState("VALIDATING")
    /\ llm_errors' = [llm_errors EXCEPT !.validate = @ + 1]
    /\ UNCHANGED <<uiVars, rankVars, cacheVars, draft, validation, result, failure>>

\* a failed fact-check that fails the whole request
ValidateUnavailable_raises ==
    /\ phase = "VALIDATING"
    /\ evidence # <<>>
    /\ draft.cited_chunk_ids # {}
    /\ llm_calls' = [llm_calls EXCEPT !.validate = @ + 1]
    /\ phase' = "FAILED"
    /\ failure' = "validation unavailable"
    /\ RunState("VALIDATING")
    /\ llm_errors' = [llm_errors EXCEPT !.validate = @ + 1]
    /\ UNCHANGED <<uiVars, rankVars, cacheVars, draft, validation, result>>

\* VALIDATING: the fact-check call fails (timeout, malformed output)
ValidateUnavailable ==
    /\ phase = "VALIDATING"
    /\ evidence # <<>>
    /\ draft.cited_chunk_ids # {}
    /\ validation' = [confidence |-> 5000, unsupported_spans |-> {}]
    /\ llm_calls' = [llm_calls EXCEPT !.validate = @ + 1]
    /\ phase' = "DONE"
    /\ RunState("VALIDATING")
    /\ llm_errors' = [llm_errors EXCEPT !.validate = @ + 1]
    /\ UNCHANGED <<uiVars, rankVars, cacheVars, draft, result, failure>>

\* DONE: assemble the externally visible result
Done ==
    /\ phase = "DONE"
    /\ result' = [message |-> draft.answer,
                  sources |-> CitedSources(evidence, draft.cited_chunk_ids),
                  confidence |-> validation.confidence,
                  unsupported_spans |-> validation.unsupported_spans]
    /\ phase' = "RETURNED"
    /\ RunState("DONE")
    /\ UNCHANGED <<uiVars, rankVars, cacheVars, llm_errors, draft, validation, failure, llm_calls>>

Next ==
    \/ Retrieve
    \/ DraftNoEvidence
    \/ DraftStructured
    \/ DraftFreeText
    \/ DraftUnavailable
    \/ ValidateNoEvidence
    \/ ValidateMissingChunks
    \/ ValidateJudged
    \/ ValidateUnavailable
    \/ Done

Spec == Init /\ [][Next]_vars

----------------------------------------------------------------------------
(* LLM requests of concurrent queries through the Response Cache *)

\* query t sends a prompt: the cache is probed first; a hit ends the request
\* with the cached completion, a miss leads to the external call
Request(t, h) ==
    /\ task[t].pc = "idle"
    /\ Issued < MaxRequests
    /\ LET hit == get(cache, CacheKey(h), now)
           started == [pc |-> "call", hash |-> h, own |-> <<>>,
                       after |-> Len(log), probed_at |-> now]
       IN IF hit # Absent
          THEN /\ UNCHANGED task
               /\ log' = Append(log, [task |-> t, hash |-> h, ok |-> TRUE, called |-> FALSE,
                                       value |-> hit, after |-> Len(log),
                                       probed_at |-> now, stored_at |-> <<>>])
          ELSE /\ task' = [task EXCEPT ![t] = started]
               /\ UNCHANGED log
    /\ UNCHANGED <<uiVars, rankVars, answerVars, cache, now, calls>>

\* the external LLM call of query t returns a completion
CallReturns(t) ==
    /\ task[t].pc = "call"
    /\ calls' = Append(calls, task[t].hash)
    /\ task' = [task EXCEPT ![t].pc = "store",
                             ![t].own = <<Completion(task[t].hash, Len(calls) + 1)>>]
    /\ UNCHANGED <<uiVars, rankVars, answerVars, cache, now, log>>

\* a failed call that leaves an entry behind
CallFails_cached(t) ==
    /\ task[t].pc = "call"
    /\ calls' = Append(calls, task[t].hash)
    /\ task' = [task EXCEPT ![t] = IdleTask]
    /\ cache' = put(cache, CacheKey(task[t].hash), Completion("", 0), cache_ttl, now)
    /\ log' = Append(log, Ended(t, FALSE, TRUE, <<>>, <<>>))
    /\ UNCHANGED <<uiVars, rankVars, answerVars, now>>

\* the external LLM call of query t fails (error, timeout, retries exhausted)
CallFails(t) ==
    /\ task[t].pc = "call"
    /\ calls' = Append(calls, task[t].hash)
    /\ task' = [task EXCEPT ![t] = IdleTask]
    /\ log' = Append(log, Ended(t, FALSE, TRUE, <<>>, <<>>))
    /\ UNCHANGED <<uiVars, rankVars, answerVars, cache, now>>

\* after the call returned: the completion is stored with the fixed expiry
\* and handed to the query
Store(t) ==
    /\ task[t].pc = "store"
    /\ cache' = put(cache, CacheKey(task[t].hash), task[t].own[1], cache_ttl, now)
    /\ task' = [task EXCEPT ![t] = IdleTask]
    /\ log' = Append(log, Ended(t, TRUE, TRUE, task[t].own, <<now>>))
    /\ UNCHANGED <<uiVars, rankVars, answerVars, now, calls>>

\* time passes
Tick ==
    /\ now < MaxTicks * ClockStep
    /\ now' = now + ClockStep
    /\ UNCHANGED <<uiVars, rankVars, answerVars, cache, task, calls, log>>

NextCache ==
    \/ \E t \in Tasks, h \in Hashes : Request(t, h)
    \/ \E t \in Tasks : CallReturns(t)
    \/ \E t \in Tasks : CallFails(t)
    \/ \E t \in Tasks : Store(t)
    \/ Tick

\* the cache is exercised by the LLM requests of one fixed pair of queries
InitCache == Init /\ query = <<"h", "i">> /\ top_k = MaxTopK

SpecCache == InitCache /\ [][NextCache]_vars

----------------------------------------------------------------------------
(* The web client, one action per event handler or render *)

\* one quiet backend: the client specifications start from a single state
InitClient == Init /\ query = <<"h", "i">> /\ top_k = MaxTopK

\* ConfidenceBadge renders for a message with the given confidence
RenderBadge ==
    /\ \E confidence \in Confidences :
        \E percent \in toFixed0(confidence) :
            badge' = <<[confidence |-> confidence,
                        level |-> getLevel(confidence),
                        label |-> levelConfig[getLevel(confidence)],
                        percent |-> percent]>>
    /\ UNCHANGED <<coreVars, viewerVars, retryVars, sessionVars, uploadVars>>

NextBadge == RenderBadge

SpecBadge == InitClient /\ [][NextBadge]_vars

\* an assistant message with sources is put on screen
ShowMessage ==
    /\ Settled
    /\ \E sources \in SourceLists : message_sources' = sources
    /\ clicked' = <<>>
    /\ UNCHANGED <<coreVars, badgeVars, retryVars, sessionVars, uploadVars, storeVars, numPages, pageNumber, scale, loading,
                   changed_deps>>

\* handleCitationClick(chunkId), openPdfViewer and the render that follows
handleCitationClick(chunkId) ==
    /\ Settled
    /\ clicked' = <<chunkId>>
    /\ LET source == sourcesMap(message_sources, chunkId)
       IN IF source = <<>>
          THEN UNCHANGED <<storeVars, numPages, pageNumber, scale, loading, changed_deps>>
          ELSE LET page == SourcePage(source[1])
               IN /\ pdfViewerOpen' = TRUE
                  /\ pdfViewerDocumentId' = <<source[1].document_id>>
                  /\ pdfViewerPage' = page
                  /\ pdfViewerHighlightText' = <<source[1].text>>
                  /\ IF Mounted
                     THEN /\ loading' = (loading \/ pdfViewerDocumentId # <<source[1].document_id>>)
                          /\ changed_deps' = IF page # pdfViewerPage THEN {"initialPage"} ELSE {}
                          /\ UNCHANGED <<numPages, pageNumber, scale>>
                     ELSE /\ numPages' = 0
                          /\ pageNumber' = page
                          /\ scale' = resetZoom
                          /\ loading' = TRUE
                          /\ changed_deps' = {}
    /\ UNCHANGED <<coreVars, badgeVars, retryVars, sessionVars, uploadVars, message_sources>>

\* onClose = closePdfViewer: the store is reset and the viewer unmounts
closePdfViewer ==
    /\ Settled
    /\ Mounted
    /\ clicked' = <<>>
    /\ pdfViewerOpen' = FALSE
    /\ pdfViewerDocumentId' = <<>>
    /\ pdfViewerPage' = 1
    /\ pdfViewerHighlightText' = <<>>
    /\ numPages' = 0
    /\ pageNumber' = 1
    /\ scale' = resetZoom
    /\ loading' = FALSE
    /\ changed_deps' = {}
    /\ UNCHANGED <<coreVars, badgeVars, retryVars, sessionVars, uploadVars, message_sources>>

\* onDocumentLoadSuccess({numPages})
onDocumentLoadSuccess ==
    /\ Settled
    /\ Mounted
    /\ loading
    /\ \E pages \in 1..MaxPages : numPages' = pages
    /\ loading' = FALSE
    /\ clicked' = <<>>
    /\ UNCHANGED <<coreVars, badgeVars, retryVars, sessionVars, uploadVars, message_sources, storeVars, pageNumber, scale,
                   changed_deps>>

\* changePage(offset), from the previous (-1) or next (+1) button when enabled
changePage(offset) ==
    /\ Settled
    /\ Mounted
    /\ IF offset < 0 THEN ~(pageNumber <= 1) ELSE ~(pageNumber >= numPages)
    /\ pageNumber' = NewPage(pageNumber, offset, numPages)
    /\ changed_deps' = IF pageNumber' # pageNumber THEN {"pageNumber"} ELSE {}
    /\ clicked' = <<>>
    /\ UNCHANGED <<coreVars, badgeVars, retryVars, sessionVars, uploadVars, message_sources, storeVars, numPages, scale, loading>>

\* useEffect(..., [initialPage, pageNumber]): jump to initialPage
PageEffect ==
    /\ Mounted
    /\ ~Settled
    /\ IF pdfViewerPage # pageNumber
       THEN /\ pageNumber' = pdfViewerPage
            /\ changed_deps' = {"pageNumber"}
       ELSE /\ changed_deps' = {}
            /\ UNCHANGED pageNumber
    /\ clicked' = <<>>
    /\ UNCHANGED <<coreVars, badgeVars, retryVars, sessionVars, uploadVars, message_sources, storeVars, numPages, scale, loading>>

\* the zoom buttons: zoomIn, zoomOut, resetZoom
ZoomIn ==
    /\ Settled
    /\ Mounted
    /\ scale' = zoomIn(scale)
    /\ clicked' = <<>>
    /\ UNCHANGED <<coreVars, badgeVars, retryVars, sessionVars, uploadVars, message_sources, storeVars, numPages, pageNumber,
                   loading, changed_deps>>

ZoomOut ==
    /\ Settled
    /\ Mounted
    /\ scale' = zoomOut(scale)
    /\ clicked' = <<>>
    /\ UNCHANGED <<coreVars, badgeVars, retryVars, sessionVars, uploadVars, message_sources, storeVars, numPages, pageNumber,
                   loading, changed_deps>>

ResetZoom ==
    /\ Settled
    /\ Mounted
    /\ scale' = resetZoom
    /\ clicked' = <<>>
    /\ UNCHANGED <<coreVars, badgeVars, retryVars, sessionVars, uploadVars, message_sources, storeVars, numPages, pageNumber,
                   loading, changed_deps>>

NextViewer ==
    \/ ShowMessage
    \/ \E chunkId \in CitationIds : handleCitationClick(chunkId)
    \/ closePdfViewer
    \/ onDocumentLoadSuccess
    \/ changePage(-1)
    \/ changePage(1)
    \/ PageEffect
    \/ ZoomIn
    \/ ZoomOut
    \/ ResetZoom

SpecViewer == InitClient /\ [][NextViewer]_vars

----------------------------------------------------------------------------
(* _rate_limited_llm_call(messages, max_retries = 3): one action per pass of
   the retry loop.  The pacing sleep before each request (min_request_interval)
   delays the request and is no part of the back-off. *)

\* a stage calls the LLM
StartCall ==
    /\ retry_pc \in {"idle", "returned"}
    /\ Len(finished) + (IF retry_pc = "returned" THEN 1 ELSE 0) < MaxCalls
    /\ finished' = IF retry_pc = "returned"
                   THEN Append(finished, [errors |-> errors, waits |-> waits,
                                          response |-> response])
                   ELSE finished
    /\ retry_pc' = "loop"
    /\ attempt' = 0
    /\ errors' = <<>>
    /\ waits' = <<>>
    /\ response' = <<>>
    /\ UNCHANGED <<coreVars, badgeVars, viewerVars, sessionVars, uploadVars>>

\* the request of this pass succeeds: return response
AttemptReturns ==
    /\ retry_pc = "loop"
    /\ response' = <<"completion">>
    /\ retry_pc' = "returned"
    /\ UNCHANGED <<coreVars, badgeVars, viewerVars, sessionVars, uploadVars, attempt, errors, waits, finished>>

\* the request of this pass raises: back off on a rate limit, go round
\* again, and fall out of the loop (return None) after max_retries passes
AttemptRaises(kind) ==
    /\ retry_pc = "loop"
    /\ errors' = Append(errors, kind)
    /\ waits' = waits \o BackoffAfter(kind, attempt)
    /\ attempt' = attempt + 1
    /\ retry_pc' = IF attempt + 1 < max_retries THEN "loop" ELSE "returned"
    /\ UNCHANGED <<coreVars, badgeVars, viewerVars, sessionVars, uploadVars, response, finished>>

NextRetry ==
    \/ StartCall
    \/ AttemptReturns
    \/ \E kind \in ErrorKinds : AttemptRaises(kind)

SpecRetry == InitClient /\ [][NextRetry]_vars

----------------------------------------------------------------------------
(* Sessions page and chat: one action per handler, per step of the backend
   and per callback of a mutation *)

\* handleSelect(session): a session of the list becomes the current one
handleSelect(sessionId) ==
    /\ sessionId \in server_sessions
    /\ currentSession' = <<sessionId>>
    /\ UNCHANGED <<coreVars, badgeVars, viewerVars, retryVars, uploadVars, sessionMessages,
                   server_sessions, chat_rq, delete_rq, cleared>>

\* handleSend: mutationFn adds the user message and calls the chat API
handleSend ==
    /\ currentSession # <<>>
    /\ chat_rq = NoRequest
    /\ Len(getSessionMessages(sessionMessages, currentSession[1])) < 2 * MaxExchanges
    /\ sessionMessages' = addMessage(sessionMessages, currentSession[1], "user")
    /\ chat_rq' = [stage |-> "sent", session |-> currentSession[1]]
    /\ UNCHANGED <<coreVars, badgeVars, viewerVars, retryVars, uploadVars, currentSession,
                   server_sessions, delete_rq, cleared>>

\* the backend takes the chat request up: it needs the session
ServerChat ==
    /\ chat_rq.stage = "sent"
    /\ chat_rq' = [chat_rq EXCEPT !.stage = IF chat_rq.session \in server_sessions
                                            THEN "answered" ELSE "failed"]
    /\ UNCHANGED <<coreVars, badgeVars, viewerVars, retryVars, uploadVars, sessionMessages,
                   currentSession, server_sessions, delete_rq, cleared>>

\* the response arrives: mutationFn adds the assistant message to the
\* session the request was sent for
ChatResolves ==
    /\ chat_rq.stage = "answered"
    /\ sessionMessages' = addMessage(sessionMessages, chat_rq.session, "assistant")
    /\ chat_rq' = NoRequest
    /\ UNCHANGED <<coreVars, badgeVars, viewerVars, retryVars, uploadVars, currentSession,
                   server_sessions, delete_rq, cleared>>

\* the chat API throws: onError logs
ChatRejects ==
    /\ chat_rq.stage = "failed"
    /\ chat_rq' = NoRequest
    /\ UNCHANGED <<coreVars, badgeVars, viewerVars, retryVars, uploadVars, sessionMessages,
                   currentSession, server_sessions, delete_rq, cleared>>

\* handleDelete(sessionId): deleteMutation.mutate(sessionId)
handleDelete(sessionId) ==
    /\ sessionId \in server_sessions
    /\ delete_rq = NoRequest
    /\ delete_rq' = [stage |-> "sent", session |-> sessionId]
    /\ UNCHANGED <<coreVars, badgeVars, viewerVars, retryVars, uploadVars, sessionMessages,
                   currentSession, server_sessions, chat_rq, cleared>>

\* the backend deletes the session
ServerDelete ==
    /\ delete_rq.stage = "sent"
    /\ server_sessions' = server_sessions \ {delete_rq.session}
    /\ delete_rq' = [delete_rq EXCEPT !.stage = "answered"]
    /\ UNCHANGED <<coreVars, badgeVars, viewerVars, retryVars, uploadVars, sessionMessages,
                   currentSession, chat_rq, cleared>>

\* deleteMutation.onSuccess: clear the messages, drop the current session
DeleteResolves ==
    /\ delete_rq.stage = "answered"
    /\ sessionMessages' = clearSessionMessages(sessionMessages, delete_rq.session)
    /\ currentSession' = IF currentSession = <<delete_rq.session>> THEN <<>>
                         ELSE currentSession
    /\ cleared' = cleared \cup {delete_rq.session}
    /\ delete_rq' = NoRequest
    /\ UNCHANGED <<coreVars, badgeVars, viewerVars, retryVars, uploadVars, server_sessions, chat_rq>>

NextSessions ==
    \/ \E sessionId \in Sessions : handleSelect(sessionId)
    \/ handleSend
    \/ ServerChat
    \/ ChatResolves
    \/ ChatRejects
    \/ \E sessionId \in Sessions : handleDelete(sessionId)
    \/ ServerDelete
    \/ DeleteResolves

SpecSessions == InitClient /\ [][NextSessions]_vars

----------------------------------------------------------------------------
(* UploadZone: one action per handler, mutation callback and timer *)

\* the files of a drop or of the file input: with or without a PDF
FileKinds == {"application/pdf", "text/plain"}

\* setUploadStatus('uploading'); uploadMutation.mutate(file)
StartUpload ==
    /\ uploadStatus' = "uploading"
    /\ in_flight' = in_flight + 1
    /\ uploads_started' = uploads_started + 1

onDragOver ==
    /\ isDragging' = TRUE
    /\ UNCHANGED <<coreVars, badgeVars, viewerVars, retryVars, sessionVars, uploadStatus,
                   in_flight, timers, uploads_started>>

onDragLeave ==
    /\ isDragging' = FALSE
    /\ UNCHANGED <<coreVars, badgeVars, viewerVars, retryVars, sessionVars, uploadStatus,
                   in_flight, timers, uploads_started>>

\* handleDrop: the zone takes a drop whatever uploadStatus is
handleDrop(type) ==
    /\ uploads_started < MaxUploads
    /\ isDragging' = FALSE
    /\ IF type = "application/pdf"
       THEN StartUpload
       ELSE UNCHANGED <<uploadStatus, in_flight, uploads_started>>
    /\ UNCHANGED <<coreVars, badgeVars, viewerVars, retryVars, sessionVars, timers>>

\* handleFileInput: the input is disabled while uploadStatus is 'uploading'
handleFileInput(type) ==
    /\ uploads_started < MaxUploads
    /\ uploadStatus # "uploading"
    /\ IF type = "application/pdf"
       THEN StartUpload
       ELSE UNCHANGED <<uploadStatus, in_flight, uploads_started>>
    /\ UNCHANGED <<coreVars, badgeVars, viewerVars, retryVars, sessionVars, isDragging, timers>>

\* uploadMutation.onSuccess
UploadSucceeds ==
    /\ in_flight > 0
    /\ in_flight' = in_flight - 1
    /\ uploadStatus' = "success"
    /\ timers' = timers + 1
    /\ UNCHANGED <<coreVars, badgeVars, viewerVars, retryVars, sessionVars, isDragging,
                   uploads_started>>

\* uploadMutation.onError
UploadFails ==
    /\ in_flight > 0
    /\ in_flight' = in_flight - 1
    /\ uploadStatus' = "error"
    /\ timers' = timers + 1
    /\ UNCHANGED <<coreVars, badgeVars, viewerVars, retryVars, sessionVars, isDragging,
                   uploads_started>>

\* a 3-second timer fires: setUploadStatus('idle')
ResetTimerFires ==
    /\ timers > 0
    /\ timers' = timers - 1
    /\ uploadStatus' = "idle"
    /\ UNCHANGED <<coreVars, badgeVars, viewerVars, retryVars, sessionVars, isDragging,
                   in_flight, uploads_started>>

NextUpload ==
    \/ onDragOver
    \/ onDragLeave
    \/ \E type \in FileKinds : handleDrop(type)
    \/ \E type \in FileKinds : handleFileInput(type)
    \/ UploadSucceeds
    \/ UploadFails
    \/ ResetTimerFires

SpecUpload == InitClient /\ [][NextUpload]_vars

----------------------------------------------------------------------------
(* Properties of the Grounded Answer Generator, checked under Spec *)

Finished == phase \in {"RETURNED", "FAILED"}

PhaseSteps == { <<"RETRIEVE", "DRAFTING">>, <<"DRAFTING", "VALIDATING">>,
                <<"VALIDATING", "DONE">>, <<"DONE", "RETURNED">>,
                <<"DRAFTING", "FAILED">> }

C3_EmptySourcesZeroConfidence ==
    (phase = "RETURNED" /\ result.sources = <<>>) => result.confidence = 0

C5_MarkersAreSources ==
    phase = "RETURNED" => ExtractMarkers(result.message) \subseteq EvidenceIds(result.sources)

C17_ValidationFailureDegrades ==
    llm_errors.validate > 0 =>
        /\ phase \in {"DONE", "RETURNED"}
        /\ failure = ""
        /\ validation.confidence = 5000
        /\ validation.unsupported_spans = {}
        /\ phase = "RETURNED" =>
              /\ result.message = draft.answer
              /\ result.confidence = 5000
              /\ result.unsupported_spans = {}

\* C17 witness: an answer of two sentences was returned after its fact-check
\* call had failed.
C17_Witness ==
    /\ phase = "RETURNED"
    /\ llm_errors.validate = 1
    /\ llm_calls.validate = 1
    /\ Len(result.message.sentences) = 2
    /\ result.sources # <<>>

----------------------------------------------------------------------------
(* Properties of the Candidate Ranker, checked under SpecRank *)

\* C7: rank() returns at most top_k Evidence records, and exactly as many as
\* there are candidates to choose from when these are fewer than top_k (down
\* to zero), each of them once.
C7_AtMostTopK ==
    rpc = "ranked" =>
        /\ Len(evidence) <= top_k
        /\ Len(candidates) <= top_k =>
              /\ Len(evidence) = Len(candidates)
              /\ { evidence[i].text : i \in 1..Len(evidence) }
                   = { candidates[i].chunk : i \in 1..Len(candidates) }
        /\ Len(candidates) >= top_k => Len(evidence) = top_k

\* C7 witness: more candidates than top_k were available and top_k were returned.
C7_Witness ==
    /\ rpc = "ranked"
    /\ Len(candidates) > top_k
    /\ Len(evidence) = top_k

\* C8: any two candidates that survive the diversity filter, and any two
\* Evidence items, differ in (document_id, page, chunk_index div 3).
C8_DistinctLocality ==
    rpc \in {"filtered", "ranked"} =>
        /\ \A i, j \in 1..Len(candidates) :
              i # j =>
                <<ChunkDocument(candidates[i].chunk), ChunkPage(candidates[i].chunk),
                  ChunkIndex(candidates[i].chunk) \div 3>>
                # <<ChunkDocument(candidates[j].chunk), ChunkPage(candidates[j].chunk),
                    ChunkIndex(candidates[j].chunk) \div 3>>
        /\ \A i, j \in 1..Len(evidence) :
              i # j =>
                <<evidence[i].document_id, evidence[i].page, ChunkIndex(evidence[i].text) \div 3>>
                # <<evidence[j].document_id, evidence[j].page, ChunkIndex(evidence[j].text) \div 3>>

\* C8 witness: the Chunk Store returned two chunks of one locality and the
\* filter kept two candidates.
C8_Witness ==
    /\ rpc = "filtered"
    /\ Len(candidates) >= 2
    /\ \E i, j \in 1..Len(pool) :
          /\ i # j
          /\ ChunkDocument(pool[i][1]) = ChunkDocument(pool[j][1])
          /\ ChunkPage(pool[i][1]) = ChunkPage(pool[j][1])
          /\ ChunkIndex(pool[i][1]) \div 3 = ChunkIndex(pool[j][1]) \div 3

\* C9: every rerank_score that is not null lies in [0,1], whatever the sign
\* of the logit it comes from.
C9_RerankScoreInUnitInterval ==
    \A i \in 1..Len(candidates) :
        candidates[i].rerank_score # <<>> =>
            /\ candidates[i].rerank_score[1] >= 0
            /\ candidates[i].rerank_score[1] <= 10000

\* C9 witness: a candidate scored from the logit -4.58 carries 0.0102.
C9_Witness ==
    \E i \in 1..Len(candidates) :
        /\ candidates[i].rerank_score_raw = <<-458>>
        /\ candidates[i].rerank_score = <<102>>

\* C10: every Evidence.score returned by rank() lies in [0,1], on the scored
\* path and on the scoring-failure path.
C10_EvidenceScoreIsPercentage ==
    rpc = "ranked" =>
        \A i \in 1..Len(evidence) :
            evidence[i].score >= 0 /\ evidence[i].score <= 10000

\* C11: section boosting never lowers a score: every candidate has
\* boosted_score >= similarity_score, for every target set and every
\* similarity the Chunk Store returned.
C11_BoostNeverLowers ==
    \A i \in 1..Len(candidates) :
        candidates[i].boosted_score >= candidates[i].similarity_score

\* C12: the boost factor of a candidate is 2.0 exactly when its section is in
\* the target set, 1.3 exactly when it is not but a related group holds both
\* its section and a target section, 1.0 otherwise; with an empty target set
\* every factor is 1.0.
C12_BoostFactorBySection ==
    rpc \in {"filtered", "ranked"} =>
        \A i \in 1..Len(candidates) :
            LET section == ChunkSection(candidates[i].chunk)
                exact == section \in target_sections
                related == \E g \in { {"results", "experiments", "evaluation"},
                                      {"methodology", "methods", "experiments"},
                                      {"introduction", "background", "abstract"},
                                      {"discussion", "conclusion", "results"} } :
                               section \in g /\ \E t \in target_sections : t \in g
            IN /\ candidates[i].boost_factor \in {10, 13, 20}
               /\ candidates[i].boost_factor = 20 <=> exact
               /\ candidates[i].boost_factor = 13 <=> (~exact /\ related)
               /\ target_sections = {} => candidates[i].boost_factor = 10

\* C12 witness: one query gave a candidate of a target section the factor 2.0
\* although a related group holds it too, and another candidate the factor 1.3.
C12_Witness ==
    /\ rpc = "filtered"
    /\ \E i \in 1..Len(candidates) :
          /\ candidates[i].boost_factor = 20
          /\ is_related_section(ChunkSection(candidates[i].chunk), target_sections)
    /\ \E i \in 1..Len(candidates) :
          /\ candidates[i].boost_factor = 13
          /\ ChunkSection(candidates[i].chunk) \notin target_sections

\* C13: classify(query) is the union of the section sets of all keyword
\* groups with a keyword in the lower-cased query, every matching group
\* contributing, and the empty set when no group matches.
C13_ClassifyIsUnion ==
    rpc \in {"filtered", "ranked"} =>
        target_sections =
            UNION { SectionRules[j].sections :
                      j \in { k \in 1..Len(SectionRules) :
                                \E kw \in SectionRules[k].keywords :
                                    Contains(Lower(query), kw) } }

\* C19: when the Cross-Encoder Scorer is unavailable rank() still returns
\* Evidence: no candidate carries a rerank score, the Evidence list is the
\* candidates in non-increasing order of boosted score cut at top_k, each
\* with its boosted score, and its items have pairwise distinct locality keys.
C19_FallbackStillRanks ==
    (rpc = "ranked" /\ ~scorer_ok) =>
        /\ \A i \in 1..Len(candidates) : candidates[i].rerank_score = <<>>
        /\ Len(evidence) = (IF Len(candidates) < top_k THEN Len(candidates) ELSE top_k)
        /\ \A i \in 1..Len(evidence) :
              /\ evidence[i].chunk_id = i
              /\ \E j \in 1..Len(candidates) :
                    /\ candidates[j].chunk = evidence[i].text
                    /\ candidates[j].boosted_score = evidence[i].score
        /\ \A i \in 1..(Len(evidence) - 1) : evidence[i].score >= evidence[i + 1].score
        /\ \A j \in 1..Len(candidates) :
              (\A i \in 1..Len(evidence) : evidence[i].text # candidates[j].chunk) =>
                  \A i \in 1..Len(evidence) : evidence[i].score >= candidates[j].boosted_score
        /\ \A i, j \in 1..Len(evidence) :
              i # j =>
                \/ evidence[i].document_id # evidence[j].document_id
                \/ evidence[i].page # evidence[j].page
                \/ ChunkIndex(evidence[i].text) \div 3 # ChunkIndex(evidence[j].text) \div 3

\* C19 witness: without the scorer two Evidence items were returned, the
\* boosted one ahead of a chunk the Chunk Store had ranked before it.
C19_Witness ==
    /\ rpc = "ranked"
    /\ ~scorer_ok
    /\ Len(evidence) = 2
    /\ evidence[1].score > evidence[2].score
    /\ \E i, j \in 1..Len(pool) :
          i < j /\ pool[i][1] = evidence[2].text /\ pool[j][1] = evidence[1].text

\* position of a chunk in what the Chunk Store returned
PoolIndex(c) == CHOOSE i \in 1..Len(pool) : pool[i][1] = c

\* candidates with equal raw similarity and equal boost factor stand in the
\* list in the order the Chunk Store returned them
KeepsPoolOrder(list) ==
    \A i, j \in 1..Len(list) :
        (/\ i < j
         /\ list[i].similarity_score = list[j].similarity_score
         /\ list[i].boost_factor = list[j].boost_factor)
        => PoolIndex(list[i].chunk) < PoolIndex(list[j].chunk)

\* C27: the sort by boosted score is stable: candidates with equal raw
\* similarity and the same boost factor keep the order in which the Chunk
\* Store returned them, in the sorted list and, when both survive, in the
\* diversity-filtered list.
C27_SortIsStable ==
    rpc = "filtered" =>
        /\ KeepsPoolOrder(SortDesc(MakeCandidates(target_sections, pool), "boosted_score"))
        /\ KeepsPoolOrder(candidates)

\* C27 witness: two candidates tie on similarity and boost factor, both
\* survived the filter, and the one the store returned first (though it has
\* the higher chunk number) still stands first.
C27_Witness ==
    /\ rpc = "filtered"
    /\ Len(candidates) = 2
    /\ candidates[1].similarity_score = candidates[2].similarity_score
    /\ candidates[1].boost_factor = candidates[2].boost_factor
    /\ candidates[1].chunk > candidates[2].chunk
    /\ PoolIndex(candidates[1].chunk) < PoolIndex(candidates[2].chunk)

----------------------------------------------------------------------------
(* Properties of the Response Cache, checked under SpecCache *)

\* no request for hash h, other than the ended requests i and j, was issued
\* before request j ended
Undisturbed(h, i, j) ==
    /\ \A k \in (1..Len(log)) \ {i, j} : log[k].hash = h => log[k].after >= j
    /\ \A t \in Tasks :
          (task[t].pc \in {"call", "store"} /\ task[t].hash = h) => task[t].after >= j

\* request j was issued after request i had ended successfully with a call,
\* for the same prompt hash and before the entry stored by i expired
FollowsInTime(i, j) ==
    /\ i # j
    /\ log[i].hash = log[j].hash
    /\ log[i].ok /\ log[i].called
    /\ log[j].after >= i
    /\ log[j].probed_at < log[i].stored_at[1] + 24

C15_FailedCallsNotCached ==
    /\ [][(Len(log') = Len(log) + 1 /\ ~log'[Len(log')].ok) => cache' = cache]_vars
    /\ [](\A j \in 1..Len(log) :
             /\ (\A k \in 1..log[j].after :
                     log[k].hash = log[j].hash => ~(log[k].ok /\ log[k].called))
                  => log[j].called
             /\ log[j].ok => log[j].value[1].prompt = log[j].hash)

\* C15 witness: after a failed call for a prompt the cache was empty, and the
\* next request with that prompt called the LLM again and stored its result.
C15_Witness ==
    \E i, j \in 1..Len(log) :
        /\ ~log[i].ok
        /\ log[j].hash = log[i].hash
        /\ log[j].after >= i
        /\ log[j].called
        /\ log[j].ok
        /\ \A x \in cache : <<x.value>> = log[j].value

\* C16: the cache changes only when a query whose LLM call has returned
\* stores its completion, and the entry written expires 24 hours later; a
\* request ends with a cached completion only if an entry of its key has not
\* expired yet, so a request that finds only expired entries is a miss and
\* goes on to the LLM call.
C16_WrittenAfterSuccessExpiresAfterTTL ==
    /\ [][cache' # cache =>
             \E t \in Tasks :
                 /\ task[t].pc = "store"
                 /\ task'[t].pc = "idle"
                 /\ task[t].own # <<>>
                 /\ cache' \ cache = { [key |-> task[t].hash, value |-> task[t].own[1],
                                         expires_at |-> now + 24] }]_vars
    /\ [][(Len(log') = Len(log) + 1 /\ ~log'[Len(log')].called) =>
             \E x \in cache :
                 /\ x.key = log'[Len(log')].hash
                 /\ now < x.expires_at
                 /\ log'[Len(log')].value = <<x.value>>]_vars

\* C16 witness: a request went on to the LLM call although the cache holds an
\* entry for its prompt, the entry having expired.
C16_Witness ==
    \E t \in Tasks :
        /\ task[t].pc = "call"
        /\ task[t].probed_at = now
        /\ \E x \in cache : x.key = task[t].hash /\ x.expires_at <= now

\* C20: in every interleaving the cache holds at most one entry per prompt
\* hash, under that hash only, and its value is in full the completion of the
\* last successful call stored for that hash (last writer wins, never a mix
\* of two completions); a query that called the LLM ends with the completion
\* of its own call, a query that hit the cache with a completion of its hash.
C20_RacingQueriesLastWriterWins ==
    /\ \A x \in cache :
          /\ x.key \in Hashes
          /\ x.value.prompt = x.key
          /\ x.value.head = x.value.tail
          /\ x.value.head \in 1..Len(calls)
          /\ calls[x.value.head] = x.key
    /\ \A h \in Hashes :
          LET stores == { k \in 1..Len(log) : log[k].hash = h /\ log[k].ok /\ log[k].called }
              entries == { x \in cache : x.key = h }
          IN IF stores = {} THEN entries = {}
             ELSE LET last == CHOOSE k \in stores : \A m \in stores : m <= k
                  IN entries = { [key |-> h, value |-> log[last].value[1],
                                  expires_at |-> log[last].stored_at[1] + 24] }
    /\ \A j \in 1..Len(log) :
          log[j].ok =>
              /\ log[j].value[1].prompt = log[j].hash
              /\ log[j].value[1].head = log[j].value[1].tail
              /\ log[j].called =>
                    /\ log[j].value[1].head \in 1..Len(calls)
                    /\ calls[log[j].value[1].head] = log[j].hash
                    /\ \A k \in 1..Len(log) :
                          (k # j /\ log[k].ok /\ log[k].called) => log[k].value # log[j].value

\* C20 witness: two queries missed the cache for one prompt hash at the same
\* time, both called the LLM and got different completions, and the cache
\* holds the completion of the one that stored last.
C20_Witness ==
    \E i, j \in 1..Len(log) :
        /\ i < j
        /\ log[i].hash = log[j].hash
        /\ log[i].task # log[j].task
        /\ log[i].ok /\ log[i].called
        /\ log[j].ok /\ log[j].called
        /\ log[j].after < i
        /\ log[i].probed_at = log[j].probed_at
        /\ log[i].value # log[j].value
        /\ \E x \in cache : x.key = log[j].hash /\ <<x.value>> = log[j].value

----------------------------------------------------------------------------
(* Properties of the web client *)

\* C22: the badge label follows the confidence thresholds (Well supported
\* from 0.75, Partial from 0.40 to below 0.75, Weak evidence below 0.40) and
\* the percentage printed next to the label lies in the range documented for
\* that label (>= 75%, 40-74%, < 40%).
C22_LabelAndPercentAgree ==
    badge # NoBadge =>
        LET b == badge[1]
        IN /\ (b.label = "Well supported") <=> (b.confidence >= 7500)
           /\ (b.label = "Partial") <=> (b.confidence >= 4000 /\ b.confidence < 7500)
           /\ (b.label = "Weak evidence") <=> (b.confidence < 4000)
           /\ (b.label = "Well supported") => b.percent >= 75
           /\ (b.label = "Partial") => (b.percent >= 40 /\ b.percent <= 74)
           /\ (b.label = "Weak evidence") => b.percent < 40

\* C23: once the document is loaded, a press of next or previous moves the
\* viewer by exactly one page, and when navigation alone changed the page
\* the viewer stays there: the page effect that runs after that render does
\* not move it back to initialPage.
C23_NavigatedPageStays ==
    [][(Mounted /\ Mounted' /\ numPages > 0 /\ changed_deps = {"pageNumber"})
           => pageNumber' = pageNumber]_vars

\* C24: the zoom controls keep the scale within 50%..300%, and the two ends
\* of the range are where the controls stop: zoomOut has no further effect
\* only at 50%, zoomIn only at 300%.
C24_ZoomCovers50To300 ==
    Mounted =>
        /\ scale >= 50 /\ scale <= 300
        /\ (zoomOut(scale) = scale) => scale = 50
        /\ (zoomIn(scale) = scale) => scale = 300

\* C25: a click on the citation [cN] of a message opens the viewer on the
\* document and page (1 when it has none) of the source of that message whose
\* chunk_id is cN, and leaves the store as it was when no source has that id.
C25_CitationOpensItsSource ==
    [][\A chunkId \in CitationIds :
        clicked' = <<chunkId>> =>
            LET at == {i \in 1..Len(message_sources) :
                          message_sources[i].chunk_id = chunkId}
            IN IF at = {}
               THEN UNCHANGED storeVars
               ELSE \E i \in at :
                      /\ pdfViewerOpen' = TRUE
                      /\ pdfViewerDocumentId' = <<message_sources[i].document_id>>
                      /\ pdfViewerPage' = IF message_sources[i].page = NoPage
                                          THEN 1 ELSE message_sources[i].page]_vars

\* C25 witness: the second citation of a message was clicked while the viewer
\* showed another document; its source has no page, so page 1 of its
\* document is open now.
C25_Witness ==
    /\ clicked = <<2>>
    /\ Len(message_sources) = 2
    /\ message_sources[2].page = NoPage
    /\ message_sources[1].document_id # message_sources[2].document_id
    /\ pdfViewerOpen
    /\ pdfViewerDocumentId = <<message_sources[2].document_id>>
    /\ pdfViewerPage = 1
    /\ numPages > 0
    /\ loading

----------------------------------------------------------------------------
(* Properties of the LLM retry loop, checked under SpecRetry *)

\* C26: a call that keeps getting rate-limit or 5xx errors is attempted at
\* most 3 times, waits 3 s, 6 s, 12 s after its first, second and third
\* failure, and after the third failure stops and returns no response.
C26_ThreeAttemptsDoublingWait ==
    /\ Len(errors) <= 3
    /\ Len(waits) = Len(errors)
    /\ \A i \in 1..Len(waits) : waits[i] = <<3, 6, 12>>[i]
    /\ Len(errors) = 3 => (retry_pc = "returned" /\ response = <<>>)

----------------------------------------------------------------------------
(* Properties of sessions and their messages, checked under SpecSessions *)

\* C29: once the deletion of a session has succeeded and its messages were
\* cleared, sessionMessages holds no entry for that session in any later
\* state, also when a chat request of the session was in flight.
C29_ClearedSessionStaysCleared ==
    \A sessionId \in cleared : sessionId \notin DOMAIN sessionMessages

----------------------------------------------------------------------------
(* Properties of the UploadZone, checked under SpecUpload *)

\* C30: whenever an upload request is in flight, uploadStatus is
\* 'uploading' (and with it the file input is disabled), whatever drops, file
\* selections, completions and reset timers came before.
C30_UploadingWhileInFlight ==
    in_flight > 0 => uploadStatus = "uploading"

====
